---- MODULE Spec2Model ----
(***************************************************************************)
(* A model of the MSusik.github.io single page application:                *)
(*   - the two variants of the vue-router route table (SpecRouter),        *)
(*   - the Vuex store that rotates the background image (SpecStore),       *)
(*   - the Smith-Waterman implementation listed in the CUDA article        *)
(*     (SpecSW).                                                           *)
(***************************************************************************)
EXTENDS Integers, Sequences, FiniteSets, TLC

VARIABLES
    \* ---- router ----
    variant,        \* which route table the application was built with
    currentPath,    \* path of router.currentRoute
    rendered,       \* component shown by <router-view>
    hops,           \* redirects followed by the last navigation
    navLog,         \* the paths navigated to so far
    \* ---- store ----
    base,
    images,
    image,
    backgroundInTransition,
    requests,       \* src of every Image object created so far, in creation order
    status,         \* status[k]: "pending" | "loaded" | "failed" for requests[k]
    log,            \* the mutations committed so far: [type, payload]
    \* ---- SmithWatermanAlgorithm (the article's listing) ----
    first,
    other,
    gap_penalty,
    row_size,
    scoring_matrix,       \* std::vector<int>, indexed from 0
    backtracking_matrix,  \* std::vector<unsigned char>, indexed from 0
    substitution_matrix,  \* the argument of fill_matrices
    i,
    j,
    pc,
    \* ---- SmithWatermanAlgorithm::backtrack ----
    current_i,
    current_j,
    backtrack_value,   \* the local `value` of backtrack
    first_string,
    second_string,
    oob             \* executions of the loop body that read out of range

routerVars == <<variant, currentPath, rendered, hops, navLog>>
storeVars  == <<base, images, image, backgroundInTransition>>
netVars    == <<requests, status>>
swVars     == <<first, other, gap_penalty, row_size, scoring_matrix,
                backtracking_matrix, substitution_matrix, i, j, pc>>
btVars     == <<current_i, current_j, backtrack_value, first_string, second_string, oob>>
vars       == <<routerVars, storeVars, netVars, log, swVars, btVars>>

undefined == "undefined"

Last(s) == s[Len(s)]

(***************************************************************************)
(* Router                                                                  *)
(***************************************************************************)

MaxNavs == 3

CudaPath == "/implementing_smith_waterman_on_CUDA_part_1"

Route(p, r, n, c) == [path |-> p, redirect |-> r, name |-> n, component |-> c]

\* A route table whose '/' entry redirects to itself.
routes_router_js_selfRedirect ==
    << Route("/", "/", undefined, undefined),
       Route("/upmath", undefined, "Upmath", "Upmath"),
       Route(CudaPath, undefined, "CudaPart1", "CudaPart1") >>

routes_router_js ==
    << Route("/", CudaPath, undefined, undefined),
       Route("/upmath", undefined, "Upmath", "Upmath"),
       Route(CudaPath, undefined, "CudaPart1", "CudaPart1") >>

\* A route table whose two components are swapped.
routes_part_000_swapped ==
    << Route("/", "/upmath", undefined, undefined),
       Route("/upmath", undefined, "Upmath", "About"),
       Route("/about", undefined, "About", "Upmath") >>

\* The variant table with the '/' redirect of router.js, a path it does not
\* define.
routes_part_000_dangling ==
    << Route("/", CudaPath, undefined, undefined),
       Route("/upmath", undefined, "Upmath", "Upmath"),
       Route("/about", undefined, "About", "About") >>

routes_part_000 ==
    << Route("/", "/upmath", undefined, undefined),
       Route("/upmath", undefined, "Upmath", "Upmath"),
       Route("/about", undefined, "About", "About") >>

Variants == {"router.js", "part_000"}

routes(v) == IF v = "router.js" THEN routes_router_js ELSE routes_part_000

\* Paths a user can navigate to: the configured ones and one no table defines.
Paths == {"/", "/upmath", "/about", CudaPath, "/missing"}

\* The first record of the table with the given path (0: none).
matchIndex(table, p) ==
    IF \E k \in 1..Len(table) : table[k].path = p
    THEN CHOOSE k \in 1..Len(table) :
            /\ table[k].path = p
            /\ \A m \in 1..(k-1) : table[m].path # p
    ELSE 0

\* The location a navigation to p ends at: redirects are followed, at most
\* `fuel` of them; an unmatched path is a route with nothing to render.
RECURSIVE resolve(_, _, _, _)
resolve(table, p, n, fuel) ==
    LET k == matchIndex(table, p) IN
    IF k = 0 THEN [path |-> p, component |-> undefined, hops |-> n, looped |-> FALSE]
    ELSE IF table[k].redirect # undefined
         THEN IF fuel = 0
              THEN [path |-> p, component |-> undefined, hops |-> n, looped |-> TRUE]
              ELSE resolve(table, table[k].redirect, n + 1, fuel - 1)
         ELSE [path |-> p, component |-> table[k].component, hops |-> n, looped |-> FALSE]

\* router.push(p)
Navigate(p) ==
    /\ Len(navLog) < MaxNavs
    /\ LET to == resolve(routes(variant), p, 0, Len(routes(variant))) IN
         /\ currentPath' = to.path
         /\ rendered' = to.component
         /\ hops' = to.hops
    /\ navLog' = Append(navLog, p)
    /\ UNCHANGED <<variant, storeVars, netVars, log, swVars, btVars>>

(***************************************************************************)
(* Store                                                                   *)
(***************************************************************************)

\* An initial state whose selected image is no entry of images.
StoreIdleMissingImage ==
    /\ base = "https://raw.githubusercontent.com/MSusik/msusik.github.io/development/src/assets/backs/"
    /\ images = <<"1.png", "2.png", "3.png", "4.png", "5.png", "6.png">>
    /\ image = "7.png"
    /\ backgroundInTransition = FALSE
    /\ requests = <<>>
    /\ status = <<>>
    /\ log = <<>>

StoreIdle ==
    /\ base = "https://raw.githubusercontent.com/MSusik/msusik.github.io/development/src/assets/backs/"
    /\ images = <<"1.png", "2.png", "3.png", "4.png", "5.png", "6.png">>
    /\ image = "2.png"
    /\ backgroundInTransition = FALSE
    /\ requests = <<>>
    /\ status = <<>>
    /\ log = <<>>

MaxCommits == 3
MaxSettled == 2

\* Filenames a caller passes to changeImage: entries of `images` and one that
\* is no entry of it.
Filenames == {"1.png", "6.png", "0.png"}

Commit(t, p) == [type |-> t, payload |-> p]

\* getters
getters_base == base
getters_images == images
getters_image == image
getters_backgroundInTransition == backgroundInTransition

\* new Image().src = state.base + img
imageSrc(b, img) == b \o img

\* forEach that stops before the last entry.
RECURSIVE forEachImageSkipLast(_, _, _)
forEachImageSkipLast(imgs, b, acc) ==
    IF Len(imgs) <= 1 THEN acc
    ELSE forEachImageSkipLast(Tail(imgs), b, Append(acc, imageSrc(b, Head(imgs))))

\* state.images.forEach(function (img) { new Image().src = ... }): the srcs of
\* the Image objects created, appended to acc in the order of creation.
RECURSIVE forEachImage(_, _, _)
forEachImage(imgs, b, acc) ==
    IF imgs = <<>> THEN acc
    ELSE forEachImage(Tail(imgs), b, Append(acc, imageSrc(b, Head(imgs))))

\* The requests one cacheImages invocation issues.
cacheImagesRequests(imgs, b) == forEachImage(imgs, b, <<>>)

\* cacheImages that consumes the list it iterates over.
cacheImagesConsuming ==
    /\ Len(log) < MaxCommits
    /\ LET issued == cacheImagesRequests(images, base) IN
         /\ requests' = requests \o issued
         /\ status' = status \o [k \in 1..Len(issued) |-> "pending"]
    /\ images' = <<>>
    /\ log' = Append(log, Commit("cacheImages", undefined))
    /\ UNCHANGED <<base, image, backgroundInTransition, routerVars, swVars, btVars>>

\* cacheImages that also selects the last image it cached.
cacheImagesSelecting ==
    /\ Len(log) < MaxCommits
    /\ LET issued == cacheImagesRequests(images, base) IN
         /\ requests' = requests \o issued
         /\ status' = status \o [k \in 1..Len(issued) |-> "pending"]
    /\ image' = Last(images)
    /\ log' = Append(log, Commit("cacheImages", undefined))
    /\ UNCHANGED <<base, images, backgroundInTransition, routerVars, swVars, btVars>>

\* mutations.cacheImages(state)
cacheImages ==
    /\ Len(log) < MaxCommits
    /\ LET issued == cacheImagesRequests(images, base) IN
         /\ requests' = requests \o issued
         /\ status' = status \o [k \in 1..Len(issued) |-> "pending"]
    /\ log' = Append(log, Commit("cacheImages", undefined))
    /\ UNCHANGED <<storeVars, routerVars, swVars, btVars>>

\* changeImage that assigns only on the first change.
changeImageOnce(f) ==
    /\ Len(log) < MaxCommits
    /\ image' = IF \E k \in 1..Len(log) : log[k].type = "changeImage" THEN image ELSE f
    /\ log' = Append(log, Commit("changeImage", f))
    /\ UNCHANGED <<base, images, backgroundInTransition, netVars, routerVars, swVars, btVars>>

\* changeImage that ignores a filename that is no entry of images.
changeImageValidated(f) ==
    /\ Len(log) < MaxCommits
    /\ image' = IF \E k \in 1..Len(images) : images[k] = f THEN f ELSE image
    /\ log' = Append(log, Commit("changeImage", f))
    /\ UNCHANGED <<base, images, backgroundInTransition, netVars, routerVars, swVars, btVars>>

\* mutations.changeImage(state, { image })
changeImage(f) ==
    /\ Len(log) < MaxCommits
    /\ image' = f
    /\ log' = Append(log, Commit("changeImage", f))
    /\ UNCHANGED <<base, images, backgroundInTransition, netVars, routerVars, swVars, btVars>>

\* changeBackgroundInTransition that flips the flag.
changeBackgroundInTransitionToggle(value) ==
    /\ Len(log) < MaxCommits
    /\ backgroundInTransition' = ~backgroundInTransition
    /\ log' = Append(log, Commit("changeBackgroundInTransition", value))
    /\ UNCHANGED <<base, images, image, netVars, routerVars, swVars, btVars>>

\* changeBackgroundInTransition that resets the image when a transition ends.
changeBackgroundInTransitionResetting(value) ==
    /\ Len(log) < MaxCommits
    /\ backgroundInTransition' = value
    /\ image' = IF value THEN image ELSE images[1]
    /\ log' = Append(log, Commit("changeBackgroundInTransition", value))
    /\ UNCHANGED <<base, images, netVars, routerVars, swVars, btVars>>

\* mutations.changeBackgroundInTransition(state, { value })
changeBackgroundInTransition(value) ==
    /\ Len(log) < MaxCommits
    /\ backgroundInTransition' = value
    /\ log' = Append(log, Commit("changeBackgroundInTransition", value))
    /\ UNCHANGED <<base, images, image, netVars, routerVars, swVars, btVars>>

Settled == {k \in 1..Len(status) : status[k] # "pending"}

\* The browser finishes the fetch of requests[k]. The Image object has no
\* onload or onerror handler and no reference to it is kept.
ImageLoaded(k) ==
    /\ Cardinality(Settled) < MaxSettled
    /\ status[k] = "pending"
    /\ status' = [status EXCEPT ![k] = "loaded"]
    /\ UNCHANGED <<storeVars, requests, log, routerVars, swVars, btVars>>

ImageFailed(k) ==
    /\ Cardinality(Settled) < MaxSettled
    /\ status[k] = "pending"
    /\ status' = [status EXCEPT ![k] = "failed"]
    /\ UNCHANGED <<storeVars, requests, log, routerVars, swVars, btVars>>

RouterIdle ==
    /\ variant = "router.js"
    /\ currentPath = "/"
    /\ rendered = undefined
    /\ hops = 0
    /\ navLog = <<>>

(***************************************************************************)
(* SmithWatermanAlgorithm                                                  *)
(***************************************************************************)

MaxLen == 3

Alphabet == {"A", "C"}

\* Strings of at most n characters.
Strings(n) == UNION {[1..k -> Alphabet] : k \in 0..n}

\* s[k] of a std::string
charAt(s, k) == s[k + 1]

\* s.size()
size(s) == Len(s)

\* Substitution matrices with an entry for every pair of characters: the
\* article's example (3 for a match, -3 otherwise) and one that is not
\* symmetric.
SubstitutionMatrices ==
    { [p \in Alphabet \X Alphabet |-> IF p[1] = p[2] THEN 3 ELSE -3],
      [p \in Alphabet \X Alphabet |->
          IF p = <<"A", "A">> THEN 2
          ELSE IF p = <<"C", "C">> THEN 3
          ELSE IF p = <<"A", "C">> THEN -1
          ELSE 1] }

GapPenalties == {-1, 0, 2}

\* backtracking_matrix entries: 'D', 'T', 'L' as unsigned char
CharD == 68
CharT == 84
CharL == 76

scoring_size(f, o) == (size(f) + 1) * (size(o) + 1)

backtracking_size(f, o) == size(f) * size(o)

\* std::vector<T>(n, 0)
vector(n) == [k \in 0..(n - 1) |-> 0]

maximum(a, b) == IF a >= b THEN a ELSE b

maximum3(a, b, c) == maximum(maximum(a, b), c)

diagonal_index(ii, jj, rs) == jj * rs + ii

\* top_index computed with the row length of the backtracking matrix.
top_index_short(diag, rs) == diag + (rs - 1)

top_index(diag, rs) == diag + rs

left_index(diag) == diag + 1

current_index(top) == top + 1

backtracking_index(diag, jj) == diag - jj

\* The direction stored for a cell whose score is max (the old entry is kept
\* when max is 0).
direction(old, diagonal_value, top_value, left_value, max) ==
    IF max > 0
    THEN IF diagonal_value = max THEN CharD
         ELSE IF top_value = max THEN CharT
         ELSE IF left_value = max THEN CharL
         ELSE old
    ELSE old

\* backtrack has not been called.
BacktrackIdle ==
    /\ current_i = 0
    /\ current_j = 0
    /\ backtrack_value = 0
    /\ first_string = <<>>
    /\ second_string = <<>>
    /\ oob = 0

\* SmithWatermanAlgorithm(first, other, gap_penalty), and the substitution
\* matrix fill_matrices is going to be called with.
InitSW ==
    /\ first \in Strings(MaxLen)
    /\ other \in Strings(MaxLen)
    /\ gap_penalty \in GapPenalties
    /\ substitution_matrix \in SubstitutionMatrices
    /\ row_size = size(first) + 1
    /\ scoring_matrix = vector(scoring_size(first, other))
    /\ backtracking_matrix = vector(backtracking_size(first, other))
    /\ i = 0
    /\ j = 0
    /\ pc = "fill_matrices"
    /\ BacktrackIdle
    /\ StoreIdle
    /\ RouterIdle

\* fill_matrices: one execution of the body of the inner loop
FillCell ==
    /\ pc = "fill_matrices"
    /\ i < row_size - 1
    /\ j < size(other)
    /\ LET diag == diagonal_index(i, j, row_size)
           top == top_index(diag, row_size)
           left == left_index(diag)
           current == current_index(top)
           bt == backtracking_index(diag, j)
           diagonal_value ==
               maximum(scoring_matrix[diag]
                         + substitution_matrix[<<charAt(first, i), charAt(other, j)>>], 0)
           left_value == maximum(scoring_matrix[left] - gap_penalty, 0)
           top_value == maximum(scoring_matrix[top] - gap_penalty, 0)
           max == maximum3(diagonal_value, left_value, top_value)
       IN /\ scoring_matrix' = [scoring_matrix EXCEPT ![current] = max]
          /\ backtracking_matrix' =
                [backtracking_matrix EXCEPT
                    ![bt] = direction(@, diagonal_value, top_value, left_value, max)]
    /\ j' = j + 1
    /\ UNCHANGED <<first, other, gap_penalty, row_size, substitution_matrix, i, pc>>
    /\ UNCHANGED <<routerVars, storeVars, netVars, log, btVars>>

\* fill_matrices: the inner loop ends, i ++
FillNextColumn ==
    /\ pc = "fill_matrices"
    /\ i < row_size - 1
    /\ j >= size(other)
    /\ i' = i + 1
    /\ j' = 0
    /\ UNCHANGED <<first, other, gap_penalty, row_size, scoring_matrix,
                   backtracking_matrix, substitution_matrix, pc>>
    /\ UNCHANGED <<routerVars, storeVars, netVars, log, btVars>>

\* fill_matrices: the outer loop ends and the function returns
FillReturn ==
    /\ pc = "fill_matrices"
    /\ i >= row_size - 1
    /\ pc' = "filled"
    /\ UNCHANGED <<first, other, gap_penalty, row_size, scoring_matrix,
                   backtracking_matrix, substitution_matrix, i, j>>
    /\ UNCHANGED <<routerVars, storeVars, netVars, log, btVars>>

NextSW ==
    \/ FillCell
    \/ FillNextColumn
    \/ FillReturn

SpecSW == InitSW /\ [][NextSW]_vars

MaxOutOfBounds == 1

\* What a read outside a vector<unsigned char> may return.
AnyByte == {0, CharD, CharT, CharL, 1}

\* What a read outside a std::string may return.
AnyChar == Alphabet \cup {"?"}

\* max_indices: the loops over i = 1..row_size-1 (outer) and j = 1..other.size()
\* (inner), from cell (a, b) on, with best = <<max_i, max_j, max_value>>.
RECURSIVE max_scan(_, _, _, _, _, _)
max_scan(sm, rs, osize, a, b, best) ==
    IF a > rs - 1 THEN best
    ELSE IF b > osize THEN max_scan(sm, rs, osize, a + 1, 1, best)
    ELSE LET current_value == sm[a + b * rs] IN
         max_scan(sm, rs, osize, a, b + 1,
                  IF current_value > best[3]
                  THEN <<a - 1, b - 1, current_value>>
                  ELSE best)

max_indices(sm, rs, osize) ==
    LET best == max_scan(sm, rs, osize, 1, 1, <<0, 0, 0>>) IN <<best[1], best[2]>>

\* backtrack: the index read in backtracking_matrix
backtrack_read_index(ci, cj, rs) == ci + cj * (rs - 1)

\* The values a read of vec[k] may return.
Reads(vec, k, any) == IF k \in DOMAIN vec THEN {vec[k]} ELSE any

\* The characters a read of s[k] may return.
CharReads(s, k) == IF k >= 0 /\ k < size(s) THEN {charAt(s, k)} ELSE AnyChar

\* backtrack: auto indices = this->max_indices(); the locals are set up
BacktrackStart ==
    /\ pc = "filled"
    /\ LET indices == max_indices(scoring_matrix, row_size, size(other)) IN
         /\ current_i' = indices[1]
         /\ current_j' = indices[2]
    /\ first_string' = <<>>
    /\ second_string' = <<>>
    /\ pc' = "backtrack_loop"
    /\ UNCHANGED <<backtrack_value, oob>>
    /\ UNCHANGED <<first, other, gap_penalty, row_size, scoring_matrix,
                   backtracking_matrix, substitution_matrix, i, j>>
    /\ UNCHANGED <<routerVars, storeVars, netVars, log>>

\* backtrack: one execution of the body of the do-while loop and of its test
BacktrackStep ==
    /\ pc = "backtrack_loop"
    /\ oob < MaxOutOfBounds
    /\ LET k == backtrack_read_index(current_i, current_j, row_size) IN
       \E v \in Reads(backtracking_matrix, k, AnyByte) :
       \E cf \in CharReads(first, current_i) :
       \E co \in CharReads(other, current_j) :
         /\ backtrack_value' = v
         /\ first_string' = IF v \in {CharD, CharT} THEN Append(first_string, cf)
                            ELSE IF v = CharL THEN Append(first_string, "-")
                            ELSE first_string
         /\ second_string' = IF v \in {CharD, CharL} THEN Append(second_string, co)
                             ELSE IF v = CharT THEN Append(second_string, "-")
                             ELSE second_string
         /\ current_i' = IF v \in {CharD, CharT} THEN current_i - 1 ELSE current_i
         /\ current_j' = IF v \in {CharD, CharL} THEN current_j - 1 ELSE current_j
         /\ oob' = IF \/ k \notin DOMAIN backtracking_matrix
                      \/ v \in {CharD, CharT} /\ ~(current_i >= 0 /\ current_i < size(first))
                      \/ v \in {CharD, CharL} /\ ~(current_j >= 0 /\ current_j < size(other))
                   THEN oob + 1 ELSE oob
         /\ pc' = IF v # 0 THEN "backtrack_loop" ELSE "backtrack_reverse"
    /\ UNCHANGED <<first, other, gap_penalty, row_size, scoring_matrix,
                   backtracking_matrix, substitution_matrix, i, j>>
    /\ UNCHANGED <<routerVars, storeVars, netVars, log>>

\* std::reverse
reverse(s) == [k \in 1..Len(s) |-> s[Len(s) + 1 - k]]

\* backtrack: both strings are reversed and returned
BacktrackReturn ==
    /\ pc = "backtrack_reverse"
    /\ first_string' = reverse(first_string)
    /\ second_string' = reverse(second_string)
    /\ pc' = "done"
    /\ UNCHANGED <<current_i, current_j, backtrack_value, oob>>
    /\ UNCHANGED <<first, other, gap_penalty, row_size, scoring_matrix,
                   backtracking_matrix, substitution_matrix, i, j>>
    /\ UNCHANGED <<routerVars, storeVars, netVars, log>>

NextBacktrack ==
    \/ FillCell
    \/ FillNextColumn
    \/ FillReturn
    \/ BacktrackStart
    \/ BacktrackStep
    \/ BacktrackReturn

SpecBacktrack == InitSW /\ [][NextBacktrack]_vars

SWIdle ==
    /\ first = <<>>
    /\ other = <<>>
    /\ gap_penalty = 0
    /\ row_size = 1
    /\ scoring_matrix = vector(1)
    /\ backtracking_matrix = vector(0)
    /\ substitution_matrix = <<>>
    /\ i = 0
    /\ j = 0
    /\ pc = "idle"
    /\ BacktrackIdle

InitStore == StoreIdle /\ RouterIdle /\ SWIdle

NextStore ==
    \/ cacheImages
    \/ \E f \in Filenames : changeImage(f)
    \/ \E value \in BOOLEAN : changeBackgroundInTransition(value)
    \/ \E k \in 1..Len(status) : ImageLoaded(k)
    \/ \E k \in 1..Len(status) : ImageFailed(k)

SpecStore == InitStore /\ [][NextStore]_vars

InitRouter ==
    /\ variant \in Variants
    /\ currentPath = "/"
    /\ rendered = undefined
    /\ hops = 0
    /\ navLog = <<>>
    /\ StoreIdle
    /\ SWIdle

NextRouter == \E p \in Paths : Navigate(p)

SpecRouter == InitRouter /\ [][NextRouter]_vars

(***************************************************************************)
(* Properties of the router                                                *)
(***************************************************************************)

\* C1: after a navigation to '/', the current route is the redirect target
\* configured for '/' (the CUDA article in router.js, '/upmath' in the variant
\* table) and never '/' itself, whatever route was current before.
C1_RootRedirects ==
    (navLog # <<>> /\ Last(navLog) = "/") =>
        /\ currentPath # "/"
        /\ variant = "router.js" => currentPath = "/implementing_smith_waterman_on_CUDA_part_1"
        /\ variant = "part_000" => currentPath = "/upmath"

\* A navigation to '/' made from each of the two component routes.
C1_Witness ==
    /\ Len(navLog) >= 2
    /\ Last(navLog) = "/"
    /\ navLog[Len(navLog) - 1] \in {"/upmath", "/about", "/missing"}
    /\ currentPath # "/"

\* C2: after any sequence of navigations the rendered component is the one
\* the route table maps the current path to: Upmath for '/upmath', CudaPart1
\* (router.js) or About (variant table) for the second route, and nothing for
\* a path the table does not define.
C2_RendersMappedComponent ==
    navLog # <<>> =>
        /\ currentPath = "/upmath" => rendered = "Upmath"
        /\ (variant = "router.js" /\ currentPath = CudaPath) => rendered = "CudaPart1"
        /\ (variant = "part_000" /\ currentPath = "/about") => rendered = "About"
        /\ (variant = "router.js" /\ currentPath = "/about") => rendered = undefined
        /\ (variant = "part_000" /\ currentPath = CudaPath) => rendered = undefined
        /\ currentPath = "/missing" => rendered = undefined
        /\ currentPath \in Paths \ {"/"}

\* The second route rendered after the Upmath route.
C2_Witness ==
    /\ Len(navLog) >= 2
    /\ navLog[1] = "/upmath"
    /\ Last(navLog) = "/about"
    /\ rendered = "About"

\* C11: in both route tables a navigation to '/' follows exactly one redirect
\* and ends on a path the same table defines with a component and without a
\* further redirect: it never loops and never lands on an unmatched route.
C11_RedirectEndsOnComponent ==
    (navLog # <<>> /\ Last(navLog) = "/") =>
        /\ hops = 1
        /\ rendered \in {"Upmath", "CudaPart1", "About"}
        /\ \E k \in 1..Len(routes(variant)) :
              /\ routes(variant)[k].path = currentPath
              /\ routes(variant)[k].redirect = undefined
              /\ routes(variant)[k].component = rendered

\* '/' navigated to twice in a row: the second time from the redirect target.
C11_Witness ==
    /\ Len(navLog) >= 2
    /\ Last(navLog) = "/"
    /\ navLog[Len(navLog) - 1] = "/"
    /\ hops = 1
    /\ rendered # undefined

(***************************************************************************)
(* Properties of the store                                                 *)
(***************************************************************************)

Committed(t) == {k \in 1..Len(log) : log[k].type = t}

Max(S) == CHOOSE x \in S : \A y \in S : y <= x

\* C3: the payload of the last changeImage committed is what the image getter
\* returns, whatever other mutations were committed before or after it.
C3_ChangeImageSetsGetter ==
    Committed("changeImage") # {} =>
        getters_image = log[Max(Committed("changeImage"))].payload

\* Two changeImage commits with different filenames, then another mutation.
C3_Witness ==
    /\ Len(log) >= 3
    /\ log[1].type = "changeImage"
    /\ log[2].type = "changeImage"
    /\ log[1].payload # log[2].payload
    /\ log[3].type # "changeImage"

\* C4: the value of the last changeBackgroundInTransition committed is the
\* flag and what its getter returns, independent of the flag's value before.
C4_TransitionFlagSet ==
    Committed("changeBackgroundInTransition") # {} =>
        /\ backgroundInTransition = log[Max(Committed("changeBackgroundInTransition"))].payload
        /\ getters_backgroundInTransition = backgroundInTransition

\* The mutation committed twice in a row with the same value TRUE.
C4_Witness ==
    /\ Len(log) >= 2
    /\ log[1] = Commit("changeBackgroundInTransition", TRUE)
    /\ log[2] = Commit("changeBackgroundInTransition", TRUE)
    /\ backgroundInTransition = TRUE

BaseUrl == "https://raw.githubusercontent.com/MSusik/msusik.github.io/development/src/assets/backs/"

ImageList == <<"1.png", "2.png", "3.png", "4.png", "5.png", "6.png">>

\* C5: every cacheImages invocation issues one request per entry of images, in
\* list order, for base concatenated with the filename: the requests issued
\* so far are that batch once per invocation, nothing skipped or repeated.
C5_OneRequestPerImage ==
    /\ Len(requests) = Len(ImageList) * Cardinality(Committed("cacheImages"))
    /\ \A k \in 1..Len(requests) :
          requests[k] = BaseUrl \o ImageList[((k - 1) % Len(ImageList)) + 1]
    /\ Len(requests) >= 1 =>
          requests[1] = "https://raw.githubusercontent.com/MSusik/msusik.github.io/development/src/assets/backs/1.png"

\* Two invocations: twelve requests.
C5_Witness ==
    /\ Cardinality(Committed("cacheImages")) = 2
    /\ Len(requests) = 12

\* C6: base and images keep their initial values, contents and order, under
\* every sequence of mutations.
C6_BaseAndImagesConstant ==
    /\ base = BaseUrl
    /\ images = ImageList
    /\ getters_base = BaseUrl
    /\ getters_images = ImageList

\* All three mutations have been committed.
C6_Witness ==
    /\ Committed("cacheImages") # {}
    /\ Committed("changeImage") # {}
    /\ Committed("changeBackgroundInTransition") # {}

\* The step commits a mutation of type t.
Commits(t) == /\ Len(log') = Len(log) + 1
              /\ Last(log').type = t

\* C7: image is written only by changeImage; cacheImages writes no field,
\* changeImage writes only image, changeBackgroundInTransition writes only
\* backgroundInTransition.
C7_MutationsWriteOwnField ==
    [][ /\ Commits("cacheImages") =>
              UNCHANGED <<base, images, image, backgroundInTransition>>
        /\ Commits("changeImage") =>
              UNCHANGED <<base, images, backgroundInTransition>>
        /\ Commits("changeBackgroundInTransition") =>
              UNCHANGED <<base, images, image>>
      ]_vars

\* Each mutation committed once, image and flag both away from their initial
\* values.
C7_Witness ==
    /\ Len(log) >= 3
    /\ log[1].type = "changeImage"
    /\ log[2].type = "changeBackgroundInTransition"
    /\ log[3].type = "cacheImages"
    /\ image # "2.png"
    /\ backgroundInTransition = TRUE

InImages(f) == \E k \in 1..Len(images) : images[k] = f

\* C8: changeImage does not validate: right after changeImage with a filename
\* that is no entry of images, image is that filename.
C8_NoValidation ==
    (log # <<>> /\ Last(log).type = "changeImage" /\ ~InImages(Last(log).payload)) =>
        image = Last(log).payload

\* changeImage was just committed with '0.png', which images does not hold.
C8_Witness ==
    /\ log # <<>>
    /\ Last(log) = Commit("changeImage", "0.png")
    /\ ~InImages(image)

\* C9: preloading is fire and forget: cacheImages leaves every store field
\* unchanged; when a request loads or fails, no store field changes, no
\* request is issued again, no mutation is committed, and a settled request
\* stays as it settled.
C9_FireAndForget ==
    [][ /\ Commits("cacheImages") => UNCHANGED storeVars
        /\ status' # status /\ ~Commits("cacheImages") =>
              UNCHANGED <<storeVars, requests, log>>
        /\ \A k \in 1..Len(status) :
              status[k] # "pending" => status'[k] = status[k]
      ]_vars

\* One request has failed and another has loaded.
C9_Witness ==
    /\ \E k \in 1..Len(status) : status[k] = "failed"
    /\ \E k \in 1..Len(status) : status[k] = "loaded"
    /\ Len(requests) = Len(images)

(***************************************************************************)
(* Properties of SmithWatermanAlgorithm                                    *)
(***************************************************************************)

\* F(a, b) of the article: a indexes first, b indexes other, 0 is the padding.
F(a, b) == scoring_matrix[a + b * (Len(first) + 1)]

Max4(a, b, c, d) ==
    CHOOSE m \in {a, b, c, d} : \A x \in {a, b, c, d} : x <= m

\* C10: after fill_matrices every padded cell (row 0, column 0) is 0 and every
\* other cell is max{0, F(i-1,j) - d, F(i,j-1) - d, F(i-1,j-1) + s(x_i, y_j)}.
C10_FillComputesRecurrence ==
    pc = "filled" =>
        /\ \A a \in 0..Len(first) : F(a, 0) = 0
        /\ \A b \in 0..Len(other) : F(0, b) = 0
        /\ \A a \in 1..Len(first), b \in 1..Len(other) :
              F(a, b) = Max4(0,
                             F(a - 1, b) - gap_penalty,
                             F(a, b - 1) - gap_penalty,
                             F(a - 1, b - 1) + substitution_matrix[<<first[a], other[b]>>])

\* fill_matrices has returned for two sequences of different lengths, both of
\* at least two characters, with a cell scored by a gap and the last cell
\* scored above 0.
C10_Witness ==
    /\ pc = "filled"
    /\ Len(first) >= 2
    /\ Len(other) >= 2
    /\ Len(first) # Len(other)
    /\ F(Len(first), Len(other)) > 0
    /\ \E k \in DOMAIN backtracking_matrix : backtracking_matrix[k] = CharT
    /\ \E k \in DOMAIN backtracking_matrix : backtracking_matrix[k] = CharL

\* C12: for non-empty sequences, every time backtrack reads
\* backtracking_matrix[current_i + current_j * (row_size - 1)] the indices
\* satisfy 0 <= current_i < |first| and 0 <= current_j < |other|, also when
\* the traced path reaches the first row or the first column.
C12_BacktrackInBounds ==
    (pc = "backtrack_loop" /\ first # <<>> /\ other # <<>>) =>
        /\ 0 <= current_i /\ current_i < Len(first)
        /\ 0 <= current_j /\ current_j < Len(other)

\* C13: initially the selected image is '2.png', an entry of images, and
\* backgroundInTransition is false; as long as every changeImage committed
\* was given an entry of images, image is an entry of images.
C13_ImageStaysAnEntry ==
    /\ log = <<>> =>
          /\ image = "2.png"
          /\ InImages(image)
          /\ backgroundInTransition = FALSE
    /\ (\A k \in Committed("changeImage") : InImages(log[k].payload)) =>
          InImages(image)

\* Two changeImage commits with entries of images, the image changed.
C13_Witness ==
    /\ Cardinality(Committed("changeImage")) >= 2
    /\ \A k \in Committed("changeImage") : InImages(log[k].payload)
    /\ image = "6.png"

====
